---------------------------- MODULE Spec2Model ----------------------------
(***************************************************************************)
(* Model of the Huts-style vacation-rental API (src/main.py,               *)
(* src/schemas.py): the startup seeder, the six route handlers, the        *)
(* Property and Booking schemas, and the document store they talk to.      *)
(*                                                                         *)
(* Conventions                                                             *)
(*   - text that is searched ($regex) is a sequence of one-character       *)
(*     strings; other text is a TLA+ string;                               *)
(*   - Optional[T] is a sequence: None is <<>>, a value v is <<v>>;        *)
(*   - a dict (a JSON body, a stored document, a query filter) is a        *)
(*     function whose DOMAIN is the set of keys that are present;          *)
(*   - prices are whole numbers, ratings are counted in tenths             *)
(*     (4.8 is 48, the schema's upper limit 5 is 50);                      *)
(*   - a calendar date is its day number.                                  *)
(***************************************************************************)
EXTENDS Integers, Sequences, FiniteSets, TLC

VARIABLES
    db,         \* TRUE iff database.db is not None (a store is connected)
    property,   \* the "property" collection, in insertion order
    booking,    \* the "booking" collection, in insertion order
    nextOid,    \* the store's source of fresh ObjectIds
    pc,         \* per process instance: "off", "starting", "counted", "serving"
    seen,       \* per instance: the count the seeder read (main.py:43)
    lastReq,    \* the step taken last: [op, inst, args]
    response,   \* the HTTP response to lastReq: [status, body]
    created     \* history: id returned by create_property -> submitted payload

vars == <<db, property, booking, nextOid, pc, seen, lastReq, response, created>>

---------------------------------------------------------------------------
(* Bounds *)

\* process instances started against the same store
NumInstances == 2
\* documents inserted by POST requests (properties and bookings together)
MaxInserts == 2
\* number the first ObjectId the store hands out is built from
FirstOid == 10

Instances == 1..NumInstances

---------------------------------------------------------------------------
(* Optional values and dicts *)

None == <<>>

Some(v) == <<v>>

EmptyDict == <<>>

\* dict.get(k, default)
Get(d, k, default) == IF k \in DOMAIN d THEN d[k] ELSE default

---------------------------------------------------------------------------
(* Text and regular-expression search *)

UpperCase ==
    <<"A", "B", "C", "D", "E", "F", "G", "H", "I", "J", "K", "L", "M",
      "N", "O", "P", "Q", "R", "S", "T", "U", "V", "W", "X", "Y", "Z">>

LowerCase ==
    <<"a", "b", "c", "d", "e", "f", "g", "h", "i", "j", "k", "l", "m",
      "n", "o", "p", "q", "r", "s", "t", "u", "v", "w", "x", "y", "z">>

\* str.lower() of one character, as a table over the upper-case letters
LowerOf == [c \in {UpperCase[i] : i \in 1..Len(UpperCase)} |->
                LowerCase[CHOOSE i \in 1..Len(UpperCase) : UpperCase[i] = c]]

Lower(c) == IF c \in DOMAIN LowerOf THEN LowerOf[c] ELSE c

\* one pattern character against one text character, option "i";
\* "." is the regex wildcard, every other character used here is a literal
CharMatch(pc_, c) == pc_ = "." \/ Lower(pc_) = Lower(c)

\* {"$regex": pattern, "$options": "i"}: unanchored, case-insensitive search
RegexSearch(pattern, text) ==
    \E i \in 0..(Len(text) - Len(pattern)) :
        \A j \in 1..Len(pattern) : CharMatch(pattern[j], text[i + j])

---------------------------------------------------------------------------
(* ObjectId *)

HexDigits ==
    <<"0", "1", "2", "3", "4", "5", "6", "7", "8", "9", "a", "b", "c", "d", "e", "f">>

HexChars == {HexDigits[i] : i \in 1..16} \cup {"A", "B", "C", "D", "E", "F"}

HexVal(c) == (CHOOSE i \in 1..16 : HexDigits[i] = Lower(c)) - 1

\* a fresh ObjectId: 12 bytes, here eleven zero bytes and the byte n
NewOid(n) == [i \in 1..12 |-> IF i < 12 THEN 0 ELSE n % 256]

\* bson.ObjectId(s) accepts exactly the strings of 24 hex digits, either case;
\* anything else raises InvalidId
IsValidOid(s) == Len(s) = 24 /\ \A i \in 1..24 : s[i] \in HexChars

\* ObjectId(s) for a valid s: bytes.fromhex(s)
ObjectId(s) == [i \in 1..12 |-> 16 * HexVal(s[2 * i - 1]) + HexVal(s[2 * i])]

\* str(oid): binascii.hexlify, 24 lowercase hex digits
OidStr(oid) ==
    [i \in 1..24 |->
        IF i % 2 = 1 THEN HexDigits[(oid[(i + 1) \div 2] \div 16) + 1]
        ELSE HexDigits[(oid[i \div 2] % 16) + 1]]

---------------------------------------------------------------------------
(* Schemas (src/schemas.py) *)

PropertyRequired == {"title", "description", "location", "price_per_night", "max_guests"}

PropertyFields ==
    PropertyRequired \cup
    {"country", "bedrooms", "bathrooms", "rating", "review_count", "amenities",
     "image_urls"}

\* the defaults of the fields a payload may omit (schemas.py:43-51)
PropertyDefaults ==
    [country |-> None, bedrooms |-> 1, bathrooms |-> 1, rating |-> None,
     review_count |-> Some(0), amenities |-> <<>>, image_urls |-> <<>>]

\* the schema with price_per_night's ge=0 left out
ValidProperty_NoPriceCheck(payload) ==
    /\ PropertyRequired \subseteq DOMAIN payload
    /\ payload.max_guests >= 1
    /\ ("bedrooms" \in DOMAIN payload => payload.bedrooms >= 0)
    /\ ("bathrooms" \in DOMAIN payload => payload.bathrooms >= 0)
    /\ ("rating" \in DOMAIN payload /\ payload.rating # None =>
            payload.rating[1] >= 0 /\ payload.rating[1] <= 50)

\* the schema with rating's le=5 left out
ValidProperty_NoRatingLimit(payload) ==
    /\ PropertyRequired \subseteq DOMAIN payload
    /\ payload.price_per_night >= 0
    /\ payload.max_guests >= 1
    /\ ("bedrooms" \in DOMAIN payload => payload.bedrooms >= 0)
    /\ ("bathrooms" \in DOMAIN payload => payload.bathrooms >= 0)
    /\ ("rating" \in DOMAIN payload /\ payload.rating # None =>
            payload.rating[1] >= 0)

\* Property.model_validate(payload) succeeds: every required field is given and
\* every Field(ge=, le=) constraint holds; a failure is FastAPI's 422
ValidProperty(payload) ==
    /\ PropertyRequired \subseteq DOMAIN payload
    /\ payload.price_per_night >= 0
    /\ payload.max_guests >= 1
    /\ ("bedrooms" \in DOMAIN payload => payload.bedrooms >= 0)
    /\ ("bathrooms" \in DOMAIN payload => payload.bathrooms >= 0)
    /\ ("rating" \in DOMAIN payload /\ payload.rating # None =>
            payload.rating[1] >= 0 /\ payload.rating[1] <= 50)

\* the validated model: the given fields, the defaults for the omitted ones
PropertyModel(payload) ==
    [k \in PropertyFields |->
        IF k \in DOMAIN payload THEN payload[k] ELSE PropertyDefaults[k]]

BookingRequired == {"property_id", "name", "email", "check_in", "check_out", "guests"}

BookingFields == BookingRequired \cup {"phone", "message"}

BookingDefaults == [phone |-> None, message |-> None]

\* a schema hardened to refuse a stay that ends before it starts
ValidBooking_DateOrder(payload) ==
    /\ BookingRequired \subseteq DOMAIN payload
    /\ payload.guests >= 1
    /\ payload.check_out >= payload.check_in

\* Booking.model_validate(payload) succeeds; the schema relates neither
\* property_id to a stored property nor check_out to check_in
ValidBooking(payload) ==
    /\ BookingRequired \subseteq DOMAIN payload
    /\ payload.guests >= 1

BookingModel(payload) ==
    [k \in BookingFields |->
        IF k \in DOMAIN payload THEN payload[k] ELSE BookingDefaults[k]]

---------------------------------------------------------------------------
(* The seed records (main.py:45-97) *)

\* "Cozy Mountain Hut"
SeedTitle1 ==
    <<"C", "o", "z", "y", " ", "M", "o", "u", "n", "t", "a", "i", "n", " ", "H", "u",
      "t">>

\* "A charming wooden hut nestled in the mountains with breathtaking views."
SeedDescription1 ==
    <<"A", " ", "c", "h", "a", "r", "m", "i", "n", "g", " ", "w", "o", "o", "d", "e",
      "n", " ", "h", "u", "t", " ", "n", "e", "s", "t", "l", "e", "d", " ", "i", "n",
      " ", "t", "h", "e", " ", "m", "o", "u", "n", "t", "a", "i", "n", "s", " ", "w",
      "i", "t", "h", " ", "b", "r", "e", "a", "t", "h", "t", "a", "k", "i", "n", "g",
      " ", "v", "i", "e", "w", "s", ".">>

\* "Aspen, Colorado"
SeedLocation1 ==
    <<"A", "s", "p", "e", "n", ",", " ", "C", "o", "l", "o", "r", "a", "d", "o">>

\* "Lakeside Cabin Retreat"
SeedTitle2 ==
    <<"L", "a", "k", "e", "s", "i", "d", "e", " ", "C", "a", "b", "i", "n", " ", "R",
      "e", "t", "r", "e", "a", "t">>

\* "Quiet cabin right on the lake. Perfect for fishing and sunsets."
SeedDescription2 ==
    <<"Q", "u", "i", "e", "t", " ", "c", "a", "b", "i", "n", " ", "r", "i", "g", "h",
      "t", " ", "o", "n", " ", "t", "h", "e", " ", "l", "a", "k", "e", ".", " ", "P",
      "e", "r", "f", "e", "c", "t", " ", "f", "o", "r", " ", "f", "i", "s", "h", "i",
      "n", "g", " ", "a", "n", "d", " ", "s", "u", "n", "s", "e", "t", "s", ".">>

\* "Lake Tahoe, California"
SeedLocation2 ==
    <<"L", "a", "k", "e", " ", "T", "a", "h", "o", "e", ",", " ", "C", "a", "l", "i",
      "f", "o", "r", "n", "i", "a">>

\* "Nordic Forest Lodge"
SeedTitle3 ==
    <<"N", "o", "r", "d", "i", "c", " ", "F", "o", "r", "e", "s", "t", " ", "L", "o",
      "d", "g", "e">>

\* "Modern Scandinavian lodge surrounded by pine forests."
SeedDescription3 ==
    <<"M", "o", "d", "e", "r", "n", " ", "S", "c", "a", "n", "d", "i", "n", "a", "v",
      "i", "a", "n", " ", "l", "o", "d", "g", "e", " ", "s", "u", "r", "r", "o", "u",
      "n", "d", "e", "d", " ", "b", "y", " ", "p", "i", "n", "e", " ", "f", "o", "r",
      "e", "s", "t", "s", ".">>

\* "Rovaniemi, Finland"
SeedLocation3 ==
    <<"R", "o", "v", "a", "n", "i", "e", "m", "i", ",", " ", "F", "i", "n", "l", "a",
      "n", "d">>

samples ==
    << [title |-> SeedTitle1, description |-> SeedDescription1,
        location |-> SeedLocation1, country |-> Some("USA"),
        price_per_night |-> 220, max_guests |-> 4, bedrooms |-> 2, bathrooms |-> 1,
        rating |-> Some(48), review_count |-> Some(128),
        amenities |-> <<"Fireplace", "Hot tub", "Wi-Fi", "Kitchen">>,
        image_urls |-> <<"https://images.unsplash.com/photo-1512917774080-9991f1c4c750",
                         "https://images.unsplash.com/photo-1505691723518-36a5ac3b2d95">>],
       [title |-> SeedTitle2, description |-> SeedDescription2,
        location |-> SeedLocation2, country |-> Some("USA"),
        price_per_night |-> 180, max_guests |-> 5, bedrooms |-> 2, bathrooms |-> 2,
        rating |-> Some(46), review_count |-> Some(86),
        amenities |-> <<"Canoe", "Deck", "Grill", "Parking">>,
        image_urls |-> <<"https://images.unsplash.com/photo-1501183638710-841dd1904471",
                         "https://images.unsplash.com/photo-1500530855697-b586d89ba3ee">>],
       [title |-> SeedTitle3, description |-> SeedDescription3,
        location |-> SeedLocation3, country |-> Some("Finland"),
        price_per_night |-> 260, max_guests |-> 6, bedrooms |-> 3, bathrooms |-> 2,
        rating |-> Some(49), review_count |-> Some(203),
        amenities |-> <<"Sauna", "Heated floors", "Wi-Fi", "Ski-in">>,
        image_urls |-> <<"https://images.unsplash.com/photo-1519999482648-25049ddd37b1",
                         "https://images.unsplash.com/photo-1544989164-31dc3c645987">>] >>

---------------------------------------------------------------------------
(* The document store *)

\* collection.count_documents({})
count_documents(coll) == Len(coll)

\* collection.insert_one(doc): the store assigns _id
insert_one(coll, doc, n) == Append(coll, ("_id" :> NewOid(n)) @@ doc)

\* collection.insert_many(docs): one fresh _id per document, in order
insert_many(coll, docs, n) ==
    coll \o [i \in 1..Len(docs) |-> ("_id" :> NewOid(n + i - 1)) @@ docs[i]]

\* whether document d satisfies the query filter f: the keys of f are ANDed,
\* "$or" holds when one of its clauses does, a missing field matches nothing
Matches(d, f) ==
    /\ "$or" \in DOMAIN f =>
            \E i \in 1..Len(f["$or"]) :
                LET clause == f["$or"][i]
                    field == CHOOSE k \in DOMAIN clause : TRUE
                IN  field \in DOMAIN d /\ RegexSearch(clause[field]["$regex"], d[field])
    /\ "location" \in DOMAIN f =>
            "location" \in DOMAIN d /\ RegexSearch(f["location"]["$regex"], d["location"])
    /\ "price_per_night" \in DOMAIN f =>
            /\ "price_per_night" \in DOMAIN d
            /\ "$gte" \in DOMAIN f["price_per_night"] =>
                    d["price_per_night"] >= f["price_per_night"]["$gte"]
            /\ "$lte" \in DOMAIN f["price_per_night"] =>
                    d["price_per_night"] <= f["price_per_night"]["$lte"]

\* collection.find(filter), in the store's natural (insertion) order
find(coll, f) == SelectSeq(coll, LAMBDA d : Matches(d, f))

\* collection.find_one({"_id": oid}): the documents with that _id
find_one(coll, oid) == SelectSeq(coll, LAMBDA d : d["_id"] = oid)

\* db.list_collection_names(): a collection exists once it holds a document
list_collection_names ==
    (IF property # <<>> THEN <<"property">> ELSE <<>>) \o
    (IF booking # <<>> THEN <<"booking">> ELSE <<>>)

\* database.get_documents(collection_name, filter_dict)
get_documents(coll, f) == IF db THEN find(coll, f) ELSE <<>>

---------------------------------------------------------------------------
(* list_properties: the filter and the view (main.py:109-148) *)

\* Python truthiness of an Optional[str]: neither None nor ""
Truthy(s) == s # None /\ s[1] # <<>>

Regex(pattern) == ("$regex" :> pattern) @@ ("$options" :> "i")

\* the bug of testing the price bounds for truthiness: 0 counts as absent
FilterBuilder_Truthiness(q, location, min_price, max_price) ==
    LET or_part ==
            IF Truthy(q)
            THEN "$or" :> << "title" :> Regex(q[1]),
                            "description" :> Regex(q[1]),
                            "location" :> Regex(q[1]) >>
            ELSE EmptyDict
        location_part ==
            IF Truthy(location) THEN "location" :> Regex(location[1]) ELSE EmptyDict
        price_filter ==
            (IF min_price # None /\ min_price[1] # 0
             THEN "$gte" :> min_price[1] ELSE EmptyDict) @@
            (IF max_price # None /\ max_price[1] # 0
             THEN "$lte" :> max_price[1] ELSE EmptyDict)
        price_part ==
            IF DOMAIN price_filter # {} THEN "price_per_night" :> price_filter
            ELSE EmptyDict
    IN  or_part @@ location_part @@ price_part

\* main.py:113-128
FilterBuilder(q, location, min_price, max_price) ==
    LET or_part ==
            IF Truthy(q)
            THEN "$or" :> << "title" :> Regex(q[1]),
                            "description" :> Regex(q[1]),
                            "location" :> Regex(q[1]) >>
            ELSE EmptyDict
        location_part ==
            IF Truthy(location) THEN "location" :> Regex(location[1]) ELSE EmptyDict
        price_filter ==
            (IF min_price # None THEN "$gte" :> min_price[1] ELSE EmptyDict) @@
            (IF max_price # None THEN "$lte" :> max_price[1] ELSE EmptyDict)
        price_part ==
            IF DOMAIN price_filter # {} THEN "price_per_night" :> price_filter
            ELSE EmptyDict
    IN  or_part @@ location_part @@ price_part

\* main.py:133-147
PropertyOutList(d) ==
    [id |-> OidStr(d["_id"]),
     title |-> Get(d, "title", <<>>),
     description |-> Get(d, "description", <<>>),
     location |-> Get(d, "location", <<>>),
     country |-> Get(d, "country", None),
     price_per_night |-> Get(d, "price_per_night", 0),
     max_guests |-> Get(d, "max_guests", 1),
     bedrooms |-> Get(d, "bedrooms", 1),
     bathrooms |-> Get(d, "bathrooms", 1),
     rating |-> Get(d, "rating", None),
     review_count |-> Get(d, "review_count", Some(0)),
     amenities |-> Get(d, "amenities", <<>>),
     image_urls |-> Get(d, "image_urls", <<>>)]

\* the bug of answering a missing store here as get_property does
list_properties_result_404(q, location, min_price, max_price) ==
    IF ~db THEN [status |-> 404, body |-> [detail |-> "Not found"]]
    ELSE LET docs ==
                get_documents(property, FilterBuilder(q, location, min_price, max_price))
         IN  [status |-> 200, body |-> [i \in 1..Len(docs) |-> PropertyOutList(docs[i])]]

list_properties_result(q, location, min_price, max_price) ==
    IF ~db THEN [status |-> 200, body |-> <<>>]
    ELSE LET docs ==
                get_documents(property, FilterBuilder(q, location, min_price, max_price))
         IN  [status |-> 200, body |-> [i \in 1..Len(docs) |-> PropertyOutList(docs[i])]]

---------------------------------------------------------------------------
(* get_property (main.py:157-178) *)

\* the bug of reading a stored 0 as "missing" (doc.get(k) or 1)
PropertyOutGet_OrDefault(doc) ==
    [id |-> OidStr(doc["_id"]),
     title |-> Get(doc, "title", <<>>),
     description |-> Get(doc, "description", <<>>),
     location |-> Get(doc, "location", <<>>),
     country |-> Get(doc, "country", None),
     price_per_night |-> Get(doc, "price_per_night", 0),
     max_guests |-> Get(doc, "max_guests", 1),
     bedrooms |-> IF Get(doc, "bedrooms", 1) = 0 THEN 1 ELSE Get(doc, "bedrooms", 1),
     bathrooms |-> IF Get(doc, "bathrooms", 1) = 0 THEN 1 ELSE Get(doc, "bathrooms", 1),
     rating |-> Get(doc, "rating", None),
     review_count |-> Get(doc, "review_count", Some(0)),
     amenities |-> Get(doc, "amenities", <<>>),
     image_urls |-> Get(doc, "image_urls", <<>>)]

\* main.py:164-178
PropertyOutGet(doc) ==
    [id |-> OidStr(doc["_id"]),
     title |-> Get(doc, "title", <<>>),
     description |-> Get(doc, "description", <<>>),
     location |-> Get(doc, "location", <<>>),
     country |-> Get(doc, "country", None),
     price_per_night |-> Get(doc, "price_per_night", 0),
     max_guests |-> Get(doc, "max_guests", 1),
     bedrooms |-> Get(doc, "bedrooms", 1),
     bathrooms |-> Get(doc, "bathrooms", 1),
     rating |-> Get(doc, "rating", None),
     review_count |-> Get(doc, "review_count", Some(0)),
     amenities |-> Get(doc, "amenities", <<>>),
     image_urls |-> Get(doc, "image_urls", <<>>)]

NotFound == [status |-> 404, body |-> [detail |-> "Not found"]]

\* an exception no handler catches: the framework answers 500
InternalServerError == [status |-> 500, body |-> [detail |-> "Internal Server Error"]]

\* FastAPI's answer to a body the schema rejects
ValidationError == [status |-> 422, body |-> [detail |-> "validation error"]]

get_property_result(property_id) ==
    IF ~db THEN NotFound
    ELSE IF ~IsValidOid(property_id) THEN InternalServerError
    ELSE LET hits == find_one(property, ObjectId(property_id))
         IN  IF hits = <<>> THEN NotFound
             ELSE [status |-> 200, body |-> PropertyOutGet(hits[1])]

---------------------------------------------------------------------------
(* The startup seeder (main.py:38-101) *)

\* the bug of inserting without looking at the count
SeederInsert_Always(count, coll, n) == insert_many(coll, samples, n)

\* the seeder made atomic: the emptiness test reads the collection as it is
\* when the insert happens, not the count read earlier
SeederInsert_Recheck(count, coll, n) ==
    IF count_documents(coll) = 0 THEN insert_many(coll, samples, n) ELSE coll

\* main.py:44-99: what the seeder does to the collection, given the count it read
SeederInsert(count, coll, n) ==
    IF count = 0 THEN insert_many(coll, samples, n) ELSE coll

---------------------------------------------------------------------------
(* Inputs *)

Chars(n) == [i \in 1..n |-> "0"]

UpperOf(c) ==
    IF \E i \in 1..Len(LowerCase) : LowerCase[i] = c
    THEN UpperCase[CHOOSE i \in 1..Len(LowerCase) : LowerCase[i] = c]
    ELSE c

\* ids the store can have handed out
KnownIds == {OidStr(NewOid(n)) : n \in FirstOid..(FirstOid + Len(samples) + MaxInserts - 1)}

\* non-empty, as the route's path segment is
MalformedIds ==
    { <<"a", "b", "c">>,
      Chars(23),
      Chars(25),
      [i \in 1..24 |-> IF i = 24 THEN "z" ELSE "0"] }

\* path ids: known ids in lowercase and in uppercase, an id never handed out,
\* and strings that are no ObjectId
PathIds ==
    KnownIds
    \cup {[i \in 1..24 |-> UpperOf(s[i])] : s \in KnownIds}
    \cup {OidStr(NewOid(255))}
    \cup MalformedIds

QValues == {None, Some(<<>>), Some(<<"l", "a", ".", "e">>)}

LocationValues == {None, Some(<<"C", "O">>)}

MinPriceValues == {None, Some(0), Some(200)}

MaxPriceValues == {None, Some(0), Some(200)}

\* the smallest valid payload: the required fields only
MinimalProperty ==
    [title |-> <<"T", "e", "s", "t">>, description |-> <<"d">>, location |-> <<"X">>,
     price_per_night |-> 100, max_guests |-> 2]

\* every field given, each constrained one at the edge of its range
FullProperty ==
    [title |-> <<"B", "l", "a", "k", "e">>, description |-> <<"f", "r", "e", "e">>,
     location |-> <<"C", "o", "m", "o">>, country |-> None,
     price_per_night |-> 0, max_guests |-> 1, bedrooms |-> 0, bathrooms |-> 0,
     rating |-> Some(50), review_count |-> None,
     amenities |-> <<"Wi-Fi">>, image_urls |-> <<"https://example.com/1.jpg">>]

Without(payload, k) == [f \in DOMAIN payload \ {k} |-> payload[f]]

With(payload, k, v) == (k :> v) @@ payload

PropertyPayloads ==
    { MinimalProperty, FullProperty,
      With(MinimalProperty, "rating", Some(0)),
      With(MinimalProperty, "price_per_night", 250) }
    \cup { Without(MinimalProperty, k) : k \in PropertyRequired }
    \cup { With(MinimalProperty, "price_per_night", -1),
           With(MinimalProperty, "max_guests", 0),
           With(MinimalProperty, "bedrooms", -1),
           With(MinimalProperty, "bathrooms", -1),
           With(MinimalProperty, "rating", Some(-1)),
           With(MinimalProperty, "rating", Some(51)),
           With(FullProperty, "price_per_night", -1) }

\* a booking of the first seeded property
PlainBooking ==
    [property_id |-> OidStr(NewOid(FirstOid)), name |-> "Ann",
     email |-> "ann@example.com", check_in |-> 10, check_out |-> 12, guests |-> 1]

\* schema-valid, yet for no stored property and leaving before arriving
LaxBooking ==
    [property_id |-> <<"n", "o", "p", "e">>, name |-> "Bob", email |-> "bob@example.com",
     phone |-> Some("555"), check_in |-> 12, check_out |-> 10, guests |-> 3,
     message |-> Some("hello")]

BookingPayloads ==
    { PlainBooking, LaxBooking, With(PlainBooking, "check_out", 10) }
    \cup { Without(PlainBooking, k) : k \in BookingRequired }
    \cup { With(PlainBooking, "guests", 0), With(LaxBooking, "guests", 0) }

\* the payloads the racing instances are sent
RacePropertyPayloads == {MinimalProperty, With(MinimalProperty, "price_per_night", -1)}

---------------------------------------------------------------------------
(* State *)

NoResponse == [status |-> 0, body |-> [detail |-> "none"]]

Req(op, inst, args) == [op |-> op, inst |-> inst, args |-> args]

NoArgs == [none |-> TRUE]

\* documents inserted by POST requests so far
Inserted == Cardinality(DOMAIN created) + Len(booking)

\* no exchange is being observed
Idle == lastReq.op = "none"

InitStore ==
    /\ db \in BOOLEAN
    /\ property = <<>>
    /\ booking = <<>>
    /\ nextOid = FirstOid
    /\ seen = [p \in Instances |-> 0]
    /\ lastReq = Req("none", 1, NoArgs)
    /\ response = NoResponse
    /\ created = EmptyDict

\* one process instance, about to start
Init == InitStore /\ pc = [p \in Instances |-> IF p = 1 THEN "starting" ELSE "off"]

\* every instance about to start against the same store
InitRace == InitStore /\ pc = [p \in Instances |-> "starting"]

---------------------------------------------------------------------------
(* Startup *)

\* seed_sample_properties, run to completion before the instance serves.
\* A connected store is taken to answer count_documents and insert_many; the
\* except clause (main.py:100-101), which only a failing store call reaches,
\* is therefore never entered.
seed_sample_properties(p) ==
    /\ Idle
    /\ pc[p] = "starting"
    /\ property' =
            IF ~db THEN property
            ELSE SeederInsert(count_documents(property), property, nextOid)
    /\ nextOid' = nextOid + (Len(property') - Len(property))
    /\ seen' = [seen EXCEPT ![p] = IF db THEN count_documents(property) ELSE @]
    /\ pc' = [pc EXCEPT ![p] = "serving"]
    /\ lastReq' = Req("seed_sample_properties", p, NoArgs)
    /\ response' = NoResponse
    /\ UNCHANGED <<db, booking, created>>

\* the seeder's first store round trip (main.py:40-43)
SeedCount(p) ==
    /\ Idle
    /\ pc[p] = "starting"
    /\ seen' = [seen EXCEPT ![p] = IF db THEN count_documents(property) ELSE @]
    /\ pc' = [pc EXCEPT ![p] = IF db THEN "counted" ELSE "serving"]
    /\ lastReq' = Req("seed_count", p, NoArgs)
    /\ response' = NoResponse
    /\ UNCHANGED <<db, property, booking, nextOid, created>>

\* the seeder's second store round trip (main.py:44-99), on the count read before
SeedInsert(p) ==
    /\ Idle
    /\ pc[p] = "counted"
    /\ property' = SeederInsert(seen[p], property, nextOid)
    /\ nextOid' = nextOid + (Len(property') - Len(property))
    /\ pc' = [pc EXCEPT ![p] = "serving"]
    /\ lastReq' = Req("seed_insert", p, NoArgs)
    /\ response' = NoResponse
    /\ UNCHANGED <<db, booking, seen, created>>

\* the process is stopped and started again: startup runs once per start
Restart(p) ==
    /\ Idle
    /\ pc[p] = "serving"
    /\ pc' = [pc EXCEPT ![p] = "starting"]
    /\ lastReq' = Req("restart", p, NoArgs)
    /\ response' = NoResponse
    /\ UNCHANGED <<db, property, booking, nextOid, seen, created>>

---------------------------------------------------------------------------
(* Route handlers; an instance serves requests once its startup is over *)

\* GET /
root(p) ==
    /\ Idle
    /\ pc[p] = "serving"
    /\ lastReq' = Req("root", p, NoArgs)
    /\ response' = [status |-> 200, body |-> [message |-> "Huts-style backend running"]]
    /\ UNCHANGED <<db, property, booking, nextOid, pc, seen, created>>

\* GET /api/properties
list_properties(p, q, location, min_price, max_price) ==
    /\ Idle
    /\ pc[p] = "serving"
    /\ lastReq' = Req("list_properties", p,
                      [q |-> q, location |-> location,
                       min_price |-> min_price, max_price |-> max_price])
    /\ response' = list_properties_result(q, location, min_price, max_price)
    /\ UNCHANGED <<db, property, booking, nextOid, pc, seen, created>>

\* GET /api/properties/{property_id}
get_property(p, property_id) ==
    /\ Idle
    /\ pc[p] = "serving"
    /\ lastReq' = Req("get_property", p, [property_id |-> property_id])
    /\ response' = get_property_result(property_id)
    /\ UNCHANGED <<db, property, booking, nextOid, pc, seen, created>>

\* the collection create_booking names (main.py:183)
BookingCollection_Property == "property"

BookingCollection == "booking"

\* database.create_document(collection_name, data): inserts the model's fields
\* as one document and returns its id as a string; no store, no insert
create_document(collection_name, data) ==
    /\ property' =
            IF collection_name = "property" THEN insert_one(property, data, nextOid)
            ELSE property
    /\ booking' =
            IF collection_name = "booking" THEN insert_one(booking, data, nextOid)
            ELSE booking
    /\ nextOid' = nextOid + 1

\* POST /api/properties
create_property(p, payload) ==
    /\ Idle
    /\ pc[p] = "serving"
    /\ lastReq' = Req("create_property", p, [payload |-> payload])
    /\ IF ~ValidProperty(payload)
       THEN /\ response' = ValidationError
            /\ UNCHANGED <<property, booking, nextOid, created>>
       ELSE IF ~db
       THEN /\ response' = InternalServerError
            /\ UNCHANGED <<property, booking, nextOid, created>>
       ELSE /\ Inserted < MaxInserts
            /\ create_document("property", PropertyModel(payload))
            /\ response' = [status |-> 201, body |-> [id |-> OidStr(NewOid(nextOid))]]
            /\ created' = (OidStr(NewOid(nextOid)) :> payload) @@ created
    /\ UNCHANGED <<db, pc, seen>>

\* POST /api/bookings
create_booking(p, payload) ==
    /\ Idle
    /\ pc[p] = "serving"
    /\ lastReq' = Req("create_booking", p, [payload |-> payload])
    /\ IF ~ValidBooking(payload)
       THEN /\ response' = ValidationError
            /\ UNCHANGED <<property, booking, nextOid>>
       ELSE IF ~db
       THEN /\ response' = InternalServerError
            /\ UNCHANGED <<property, booking, nextOid>>
       ELSE /\ Inserted < MaxInserts
            /\ create_document(BookingCollection, BookingModel(payload))
            /\ response' = [status |-> 201,
                            body |-> [id |-> OidStr(NewOid(nextOid)),
                                      status |-> "received"]]
    /\ UNCHANGED <<db, pc, seen, created>>

\* GET /test; url_set: whether the environment sets DATABASE_URL
test_database(p, url_set) ==
    /\ Idle
    /\ pc[p] = "serving"
    /\ lastReq' = Req("test_database", p, [url_set |-> url_set])
    /\ response' =
            [status |-> 200,
             body |->
                IF db
                THEN [backend |-> "Running", database |-> "Connected & Working",
                      database_url |-> Some(IF url_set THEN "Set" ELSE "Not Set"),
                      database_name |-> Some("db.name"),
                      connection_status |-> "Connected",
                      collections |->
                          SubSeq(list_collection_names, 1,
                                 IF Len(list_collection_names) < 10
                                 THEN Len(list_collection_names) ELSE 10)]
                ELSE [backend |-> "Running", database |-> "Not Available",
                      database_url |-> None, database_name |-> None,
                      connection_status |-> "Not Connected", collections |-> <<>>]]
    /\ UNCHANGED <<db, property, booking, nextOid, pc, seen, created>>

\* the response has left and the exchange is over; the handlers run one
\* store round trip each, so observing one exchange at a time loses no behaviour
Respond ==
    /\ ~Idle
    /\ lastReq' = Req("none", 1, NoArgs)
    /\ response' = NoResponse
    /\ UNCHANGED <<db, property, booking, nextOid, pc, seen, created>>

---------------------------------------------------------------------------
(* Specifications *)

Requests(p) ==
    \/ root(p)
    \/ \E q \in QValues, location \in LocationValues,
          min_price \in MinPriceValues, max_price \in MaxPriceValues :
            list_properties(p, q, location, min_price, max_price)
    \/ \E property_id \in PathIds : get_property(p, property_id)
    \/ \E payload \in PropertyPayloads : create_property(p, payload)
    \/ \E payload \in BookingPayloads : create_booking(p, payload)
    \/ \E url_set \in BOOLEAN : test_database(p, url_set)

\* one instance, started and restarted any number of times
Next ==
    \/ \E p \in Instances :
            \/ seed_sample_properties(p)
            \/ Restart(p)
            \/ Requests(p)
    \/ Respond

Spec == Init /\ [][Next]_vars

\* several instances started against one store, their seeders interleaving
\* store round trip by store round trip
NextRace ==
    \/ \E p \in Instances :
            \/ SeedCount(p)
            \/ SeedInsert(p)
            \/ root(p)
            \/ \E payload \in RacePropertyPayloads : create_property(p, payload)
            \/ \E property_id \in KnownIds : get_property(p, property_id)
    \/ Respond

SpecRace == InitRace /\ [][NextRace]_vars

---------------------------------------------------------------------------
(* Helpers of the properties *)

StripId(d) == [k \in DOMAIN d \ {"_id"} |-> d[k]]

IsPrefix(s, t) == Len(s) <= Len(t) /\ SubSeq(t, 1, Len(s)) = s

ReadOps == {"list_properties", "get_property", "root", "test_database"}

HandlerOps == ReadOps \cup {"create_property", "create_booking"}

\* number of stored properties whose fields are those of a seed record
SeedCopies(coll) == Cardinality({i \in 1..Len(coll) : \E j \in 1..Len(samples) :
                                    StripId(coll[i]) = samples[j]})

---------------------------------------------------------------------------
(* C1 *)

\* C1: with a store connected, GET /api/properties/{id} for an id that is no
\* syntactically valid ObjectId ends in 404 "Not found", never in a 500.
C1_MalformedIdIsNotFound ==
    (lastReq.op = "get_property" /\ db /\ ~IsValidOid(lastReq.args.property_id))
        => response = NotFound

---------------------------------------------------------------------------
(* C2 *)

\* the conditions of the provided parameters, all of which a listed property meets
SatisfiesProvided(d, a) ==
    /\ a.q # None =>
            \/ RegexSearch(a.q[1], d.title)
            \/ RegexSearch(a.q[1], d.description)
            \/ RegexSearch(a.q[1], d.location)
    /\ a.location # None => RegexSearch(a.location[1], d.location)
    /\ a.min_price # None => d.price_per_night >= a.min_price[1]
    /\ a.max_price # None => d.price_per_night <= a.max_price[1]

\* the bounds the filter puts on price_per_night
PriceKeys(f) ==
    IF "price_per_night" \in DOMAIN f THEN DOMAIN f["price_per_night"] ELSE {}

\* C2: with a store connected, GET /api/properties returns exactly the stored
\* properties that satisfy every provided condition; an absent parameter puts
\* no key into the filter, and a provided price bound of 0 is applied.
C2_ListReturnsExactlyTheMatches ==
    (lastReq.op = "list_properties" /\ db) =>
        LET a == lastReq.args
            f == FilterBuilder(a.q, a.location, a.min_price, a.max_price)
            expected == SelectSeq(property, LAMBDA d : SatisfiesProvided(d, a))
        IN  /\ response.status = 200
            /\ Len(response.body) = Len(expected)
            /\ \A i \in 1..Len(expected) :
                    response.body[i].id = OidStr(expected[i]["_id"])
            /\ a.q = None => "$or" \notin DOMAIN f
            /\ a.location = None => "location" \notin DOMAIN f
            /\ PriceKeys(f) = (IF a.min_price # None THEN {"$gte"} ELSE {})
                                \cup (IF a.max_price # None THEN {"$lte"} ELSE {})
            /\ \A k \in PriceKeys(f) :
                    f["price_per_night"][k] =
                        (IF k = "$gte" THEN a.min_price[1] ELSE a.max_price[1])

\* all four parameters provided, min_price being 0; some stored properties are
\* listed and some are filtered out
C2_Witness ==
    /\ lastReq.op = "list_properties" /\ db
    /\ lastReq.args.q # None /\ lastReq.args.location # None
    /\ lastReq.args.min_price = Some(0) /\ lastReq.args.max_price # None
    /\ Len(response.body) >= 1
    /\ Len(response.body) < Len(property)

---------------------------------------------------------------------------
(* C3 *)

---------------------------------------------------------------------------
(* C4 *)

\* the view the submitted payload is to come back as: the submitted values,
\* and the schema's defaults for the optional fields left out
ExpectedView(id, payload) ==
    [id |-> id,
     title |-> payload.title,
     description |-> payload.description,
     location |-> payload.location,
     country |-> IF "country" \in DOMAIN payload THEN payload.country ELSE None,
     price_per_night |-> payload.price_per_night,
     max_guests |-> payload.max_guests,
     bedrooms |-> IF "bedrooms" \in DOMAIN payload THEN payload.bedrooms ELSE 1,
     bathrooms |-> IF "bathrooms" \in DOMAIN payload THEN payload.bathrooms ELSE 1,
     rating |-> IF "rating" \in DOMAIN payload THEN payload.rating ELSE None,
     review_count |->
        IF "review_count" \in DOMAIN payload THEN payload.review_count ELSE Some(0),
     amenities |-> IF "amenities" \in DOMAIN payload THEN payload.amenities ELSE <<>>,
     image_urls |-> IF "image_urls" \in DOMAIN payload THEN payload.image_urls ELSE <<>>]

\* C4: GET /api/properties/{id} for an id that POST /api/properties returned
\* answers 200 with the submitted values, defaults filled in, whatever was
\* created or booked since.
C4_RoundTrip ==
    (lastReq.op = "get_property" /\ lastReq.args.property_id \in DOMAIN created) =>
        /\ response.status = 200
        /\ response.body =
                ExpectedView(lastReq.args.property_id, created[lastReq.args.property_id])

\* a property posted with the required fields only is fetched after a booking
\* or another property was inserted behind it
C4_Witness ==
    /\ lastReq.op = "get_property"
    /\ lastReq.args.property_id \in DOMAIN created
    /\ created[lastReq.args.property_id] = MinimalProperty
    /\ response.status = 200
    /\ response.body.bedrooms = 1 /\ response.body.review_count = Some(0)
    /\ \/ \E i \in 1..Len(booking) :
                booking[i]["_id"][12] > ObjectId(lastReq.args.property_id)[12]
       \/ \E i \in 1..Len(property) :
                property[i]["_id"][12] > ObjectId(lastReq.args.property_id)[12]

---------------------------------------------------------------------------
(* C5 *)

\* a Property payload that breaks a constraint of the schema
PropertyViolation(payload) ==
    \/ \E k \in PropertyRequired : k \notin DOMAIN payload
    \/ "price_per_night" \in DOMAIN payload /\ payload.price_per_night < 0
    \/ "max_guests" \in DOMAIN payload /\ payload.max_guests < 1
    \/ "bedrooms" \in DOMAIN payload /\ payload.bedrooms < 0
    \/ "bathrooms" \in DOMAIN payload /\ payload.bathrooms < 0
    \/ "rating" \in DOMAIN payload /\ payload.rating # None
            /\ (payload.rating[1] < 0 \/ payload.rating[1] > 50)

\* a Booking payload that breaks a constraint of the schema
BookingViolation(payload) ==
    \/ \E k \in BookingRequired : k \notin DOMAIN payload
    \/ "guests" \in DOMAIN payload /\ payload.guests < 1

\* C5: a POST whose payload breaks a schema constraint is answered 422 and
\* inserts nothing: both collections are as they were.
C5_InvalidPayloadIsRejected ==
    [][ ( \/ lastReq'.op = "create_property" /\ PropertyViolation(lastReq'.args.payload)
          \/ lastReq'.op = "create_booking" /\ BookingViolation(lastReq'.args.payload) )
        => /\ response'.status = 422
           /\ property' = property
           /\ booking' = booking ]_vars

\* POST /api/properties with price_per_night = -1, against a seeded store
C5_Witness ==
    /\ lastReq.op = "create_property"
    /\ "price_per_night" \in DOMAIN lastReq.args.payload
    /\ lastReq.args.payload.price_per_night = -1
    /\ response.status = 422
    /\ db /\ Len(property) = Len(samples)

---------------------------------------------------------------------------
(* C6 *)

\* C6: without a store connection GET /api/properties answers 200 with the
\* empty sequence, whatever the query parameters.
C6_ListWithoutStoreIsEmpty ==
    (lastReq.op = "list_properties" /\ ~db) =>
        response.status = 200 /\ response.body = <<>>

\* a fully parameterised listing without a store
C6_Witness ==
    /\ lastReq.op = "list_properties" /\ ~db
    /\ lastReq.args.q # None /\ lastReq.args.location # None
    /\ lastReq.args.min_price # None /\ lastReq.args.max_price # None
    /\ response.status = 200

---------------------------------------------------------------------------
(* C7 *)

\* C7: every stored property has price_per_night >= 0, max_guests >= 1 and,
\* when it has a rating, a rating within [0, 5].
C7_StoredPropertiesAreInRange ==
    \A i \in 1..Len(property) :
        /\ property[i].price_per_night >= 0
        /\ property[i].max_guests >= 1
        /\ property[i].rating # None =>
                property[i].rating[1] >= 0 /\ property[i].rating[1] <= 50

\* the seeds and a posted property at the edges of the ranges are stored
C7_Witness ==
    /\ Len(property) > Len(samples)
    /\ \E i \in 1..Len(property) :
            /\ property[i].price_per_night = 0
            /\ property[i].max_guests = 1
            /\ property[i].rating = Some(50)

---------------------------------------------------------------------------
(* C8 *)

\* C8: a stored property stays, at its place and with its id and values, over
\* every step; only create_property and the seeder add documents, every other
\* step leaves the property collection as it was.
C8_PropertiesAreOnlyAdded ==
    [][ /\ IsPrefix(property, property')
        /\ lastReq'.op \notin {"create_property", "seed_sample_properties"}
                => property' = property ]_vars

\* a booking was accepted while posted properties were stored
C8_Witness ==
    /\ lastReq.op = "create_booking"
    /\ response.status = 201
    /\ Len(booking) >= 1
    /\ Len(property) > Len(samples)

---------------------------------------------------------------------------
(* C9 *)

\* a Booking payload the schema accepts
BookingAccepted(payload) ==
    /\ \A k \in BookingRequired : k \in DOMAIN payload
    /\ payload.guests >= 1

\* what a valid POST /api/bookings does: one more booking record, holding the
\* payload, and 201 {id, status: "received"} naming it
BookingReceived ==
    /\ response'.status = 201
    /\ response'.body.status = "received"
    /\ Len(booking') = Len(booking) + 1
    /\ SubSeq(booking', 1, Len(booking)) = booking
    /\ \A k \in DOMAIN lastReq'.args.payload :
            booking'[Len(booking')][k] = lastReq'.args.payload[k]
    /\ response'.body.id = OidStr(booking'[Len(booking')]["_id"])

\* C9 as stated: every schema-valid POST /api/bookings persists one booking
\* record and is answered 201 {id, status: "received"}; no other step touches
\* the booking collection.
C9_AsStated ==
    [][ /\ (lastReq'.op = "create_booking" /\ BookingAccepted(lastReq'.args.payload))
            => BookingReceived
        /\ lastReq'.op # "create_booking" => booking' = booking ]_vars

\* C9, amended: with a store connected, every schema-valid POST /api/bookings
\* persists one booking record and is answered 201 {id, status: "received"},
\* whatever its property_id and dates; no other step touches the booking
\* collection, and no step changes or removes a stored booking.
C9_BookingIsStoredUnchecked ==
    [][ /\ (lastReq'.op = "create_booking" /\ BookingAccepted(lastReq'.args.payload)
            /\ db) => BookingReceived
        /\ lastReq'.op # "create_booking" => booking' = booking
        /\ IsPrefix(booking, booking') ]_vars

\* a booking for no stored property, leaving before arriving, was stored
C9_Witness ==
    /\ lastReq.op = "create_booking"
    /\ response.status = 201
    /\ property # <<>>
    /\ \A i \in 1..Len(property) :
            OidStr(property[i]["_id"]) # lastReq.args.payload.property_id
    /\ lastReq.args.payload.check_out < lastReq.args.payload.check_in
    /\ booking[Len(booking)].property_id = lastReq.args.payload.property_id

---------------------------------------------------------------------------
(* C10 *)

\* C10: the seeder's insert acts on the count read earlier, not on the
\* collection as it is by then: having read 0 it appends the 3 seed records
\* whatever other instances inserted meanwhile, having read more it inserts
\* nothing. An instance handles requests only once its own seeder is done, so
\* none of its own requests falls between its count and its insert.
C10_SeederIsNotAtomic ==
    [][ /\ lastReq'.op = "seed_insert" =>
                IF seen[lastReq'.inst] = 0
                THEN /\ Len(property') = Len(property) + Len(samples)
                     /\ IsPrefix(property, property')
                     /\ \A i \in 1..Len(samples) :
                            StripId(property'[Len(property) + i]) = samples[i]
                ELSE property' = property
        /\ lastReq'.op \in HandlerOps =>
                pc[lastReq'.inst] = "serving" /\ pc'[lastReq'.inst] = "serving"
        /\ SeedCopies(property') <= NumInstances * Len(samples) ]_vars

\* two instances both read 0 and both inserted: each seed record is stored twice
C10_Witness ==
    /\ Len(property) = 2 * Len(samples)
    /\ \A i \in 1..Len(samples) :
            /\ StripId(property[i]) = samples[i]
            /\ StripId(property[Len(samples) + i]) = samples[i]

=============================================================================
